---- MODULE Spec2Model ----
(***************************************************************************)
(* PMpedia search backend (src/unnamed/part_005): the SearchEngine class,  *)
(* the module-level document store and the start-up sequence.              *)
(*                                                                         *)
(* Free text (titles, bodies, queries, file names) is a sequence of        *)
(* one-character strings, so that toLowerCase, includes, startsWith, the   *)
(* regular expressions and the tokenizer are computed character by         *)
(* character.  Identifiers that the code only compares or upper-cases      *)
(* (standard keys, section numbers, section types) are TLA+ strings.       *)
(* A string field that is absent and one that is empty are both <<>> (or   *)
(* ""): the source reads such fields only through `||` chains and `!x`,    *)
(* where undefined and the empty string behave alike.  Scores are kept in  *)
(* thousandths, partial-match counts in halves.                            *)
(***************************************************************************)
EXTENDS Integers, Sequences, FiniteSets, TLC

\* A local `const x = e`: e is evaluated once and the body reads its value.
With(e, Body(_)) == CHOOSE r \in {Body(x) : x \in {e}} : TRUE

With2(e1, e2, Body(_, _)) == CHOOSE r \in {Body(x, y) : x \in {e1}, y \in {e2}} : TRUE

----------------------------------------------------------------------------
(* Characters and the JavaScript string primitives the engine uses.        *)

UpperLetters ==
  <<"A","B","C","D","E","F","G","H","I","J","K","L","M",
    "N","O","P","Q","R","S","T","U","V","W","X","Y","Z">>

LowerLetters ==
  <<"a","b","c","d","e","f","g","h","i","j","k","l","m",
    "n","o","p","q","r","s","t","u","v","w","x","y","z">>

DigitChars == {"0","1","2","3","4","5","6","7","8","9"}

UpperSet == {UpperLetters[i] : i \in 1..26}

LowerSet == {LowerLetters[i] : i \in 1..26}

\* \w of a JavaScript regular expression, and the characters WordTokenizer keeps
WordChars == UpperSet \cup LowerSet \cup DigitChars \cup {"_"}

\* \s of a JavaScript regular expression (the members that occur in the inputs)
WhiteChars == {" ", "\t", "\n", "\r"}

\* the line terminators that `.` of a regular expression does not match
LineBreaks == {"\n", "\r"}

LowerOfUpper == [c \in UpperSet |-> LowerLetters[CHOOSE i \in 1..26 : UpperLetters[i] = c]]

ToLowerChar(c) == IF c \in UpperSet THEN LowerOfUpper[c] ELSE c

ToLowerCase(s) == With(s, LAMBDA t : [i \in 1..Len(t) |-> ToLowerChar(t[i])] \o <<>>)

\* pattern p occurs in s at position i (1-based)
MatchesAt(s, p, i) ==
  /\ i >= 1
  /\ i + Len(p) - 1 <= Len(s)
  /\ \A k \in 1..Len(p) : s[i + k - 1] = p[k]

Includes(s, p) ==
  With2(s, p, LAMBDA t, q : \E i \in 1..(Len(t) - Len(q) + 1) : MatchesAt(t, q, i))

StartsWith(s, p) == With2(s, p, LAMBDA t, q : MatchesAt(t, q, 1))

EndsWith(s, p) ==
  With2(s, p, LAMBDA t, q : Len(q) <= Len(t) /\ MatchesAt(t, q, Len(t) - Len(q) + 1))

Min(S) == With(S, LAMBDA T : CHOOSE x \in T : \A y \in T : x <= y)

Max(S) == With(S, LAMBDA T : CHOOSE x \in T : \A y \in T : x >= y)

\* s.trim()
Trim(s) ==
  With(s, LAMBDA t :
    With({i \in 1..Len(t) : t[i] \notin WhiteChars}, LAMBDA black :
      IF black = {} THEN <<>> ELSE SubSeq(t, Min(black), Max(black))))

\* the members of a set S of numbers of 1..n in ascending order
Ascending(S, n) ==
  With(S, LAMBDA T :
    With([i \in 1..n |-> IF i \in T THEN Cardinality({j \in T : j <= i}) ELSE 0] \o <<>>,
         LAMBDA rank :
           [k \in 1..Cardinality(T) |-> CHOOSE i \in T : rank[i] = k] \o <<>>))

\* the last position of the run of characters outside seps that position i is in
RunEnd(s, seps, i) == Min({j \in i..Len(s) : j = Len(s) \/ s[j + 1] \in seps})

\* the maximal runs of characters of s outside seps, in order
Runs(s, seps) ==
  With2(s, seps, LAMBDA t, sp :
    With(Ascending({i \in 1..Len(t) : t[i] \notin sp /\ (i = 1 \/ t[i - 1] \in sp)},
                   Len(t)),
         LAMBDA starts :
           [k \in 1..Len(starts) |-> SubSeq(t, starts[k], RunEnd(t, sp, starts[k]))]
             \o <<>>))

\* s.split(/\s+/): the pieces between maximal runs of white space, an empty
\* piece at an end where s begins or ends with white space ("" gives [""])
SplitWhitespace(s) ==
  With(s, LAMBDA t :
    IF t = <<>> THEN << <<>> >>
    ELSE (IF t[1] \in WhiteChars THEN << <<>> >> ELSE <<>>)
           \o Runs(t, WhiteChars)
           \o (IF t[Len(t)] \in WhiteChars THEN << <<>> >> ELSE <<>>))

\* natural.WordTokenizer.tokenize: split on runs of non-word characters, drop ''
NonWordCharsOf(s) == With(s, LAMBDA t : {t[i] : i \in 1..Len(t)} \ WordChars)

Tokenize(s) == With(s, LAMBDA t : Runs(t, NonWordCharsOf(t)))

\* the matches of a global regular expression are successive and do not overlap:
\* the number of them from position i on, starts being where the pattern matches
RECURSIVE CountSuccessive(_, _, _)
CountSuccessive(starts, width, i) ==
  With({j \in starts : j >= i}, LAMBDA later :
    IF later = {} THEN 0
    ELSE With(Min(later) + width, LAMBDA next : 1 + CountSuccessive(starts, width, next)))

\* number of matches of text.match(new RegExp(escapeRegex(p), 'g')); the empty
\* pattern matches at every position
CountOccurrences(s, p) ==
  With2(s, p, LAMBDA t, q :
    IF q = <<>> THEN Len(t) + 1
    ELSE With({i \in 1..Len(t) : MatchesAt(t, q, i)}, LAMBDA starts :
           CountSuccessive(starts, Len(q), 1)))

IsWordAt(s, i) == i >= 1 /\ i <= Len(s) /\ s[i] \in WordChars

\* \b before position i (between s[i-1] and s[i])
BoundaryBefore(s, i) == IsWordAt(s, i - 1) # IsWordAt(s, i)

\* number of matches of new RegExp(`\\b${escapeRegex(w)}\\b`, 'g'); for w = ''
\* the pattern \b\b matches once at every word boundary
CountWholeWord(s, w) ==
  With2(s, w, LAMBDA t, q :
    IF q = <<>> THEN Cardinality({i \in 1..(Len(t) + 1) : BoundaryBefore(t, i)})
    ELSE With({i \in 1..Len(t) : /\ MatchesAt(t, q, i)
                                 /\ BoundaryBefore(t, i)
                                 /\ BoundaryBefore(t, i + Len(q))},
              LAMBDA starts : CountSuccessive(starts, Len(q), 1)))

\* new RegExp(word.split('').join('.*?'), 'i').test(s): the letters of word in
\* order with arbitrary gaps, the gaps not crossing a line terminator; the empty
\* word gives the empty pattern, which matches.  From position i, letter k.
RECURSIVE SubseqFrom(_, _, _, _)
SubseqFrom(s, w, i, k) ==
  IF k > Len(w) THEN TRUE
  ELSE With({j \in i..Len(s) : ToLowerChar(s[j]) = ToLowerChar(w[k])}, LAMBDA hits :
         /\ hits # {}
         /\ With(Min(hits), LAMBDA first :
              /\ \A j \in i..(first - 1) : s[j] \notin LineBreaks
              /\ SubseqFrom(s, w, first + 1, k + 1)))

LettersInOrder(s, w) ==
  With2(s, w, LAMBDA t, q :
    \/ q = <<>>
    \/ \E i \in 1..Len(t) :
         ToLowerChar(t[i]) = ToLowerChar(q[1]) /\ SubseqFrom(t, q, i + 1, 2))

----------------------------------------------------------------------------
(* The texts of the bounded inputs: file names, keywords, titles, bodies   *)
(* and queries, written out character by character.                        *)

\* ".json" (5 characters)
FileSuffix ==
  <<".","j","s","o","n">>

\* "pmbok" (5 characters)
NamePmbok ==
  <<"p","m","b","o","k">>

\* "prince2" (7 characters)
NamePrince2 ==
  <<"p","r","i","n","c","e","2">>

\* "iso" (3 characters)
NameIso ==
  <<"i","s","o">>

\* "index" (5 characters)
KwIndex ==
  <<"i","n","d","e","x">>

\* "appendix" (8 characters)
KwAppendix ==
  <<"a","p","p","e","n","d","i","x">>

\* "appendices" (10 characters)
KwAppendices ==
  <<"a","p","p","e","n","d","i","c","e","s">>

\* "table of contents" (17 characters)
KwTableOfContents ==
  <<"t","a","b","l","e"," ","o","f"," ","c","o","n","t","e","n","t","s">>

\* "contents" (8 characters)
KwContents ==
  <<"c","o","n","t","e","n","t","s">>

\* "bibliography" (12 characters)
KwBibliography ==
  <<"b","i","b","l","i","o","g","r","a","p","h","y">>

\* "references" (10 characters)
KwReferences ==
  <<"r","e","f","e","r","e","n","c","e","s">>

\* "pmbok.json" (10 characters)
FilePmbokJson ==
  <<"p","m","b","o","k",".","j","s","o","n">>

\* "prince2.json" (12 characters)
FilePrince2Json ==
  <<"p","r","i","n","c","e","2",".","j","s","o","n">>

\* "iso21502.json" (13 characters)
FileIsoJson ==
  <<"i","s","o","2","1","5","0","2",".","j","s","o","n">>

\* "pmbok_old.json" (14 characters)
FilePmbokOldJson ==
  <<"p","m","b","o","k","_","o","l","d",".","j","s","o","n">>

\* "glossary.json" (13 characters)
FileGlossaryJson ==
  <<"g","l","o","s","s","a","r","y",".","j","s","o","n">>

\* "notes.txt" (9 characters)
FileNotesTxt ==
  <<"n","o","t","e","s",".","t","x","t">>

\* "Risk Management" (15 characters)
TitleRiskManagement ==
  <<"R","i","s","k"," ","M","a","n","a","g","e","m","e","n","t">>

\* "Appendix A: Glossary" (20 characters)
TitleAppendixGlossary ==
  <<"A","p","p","e","n","d","i","x"," ","A",":"," ","G","l","o","s","s","a",
    "r","y">>

\* "Table of Contents" (17 characters)
TitleTableOfContents ==
  <<"T","a","b","l","e"," ","o","f"," ","C","o","n","t","e","n","t","s">>

\* "Risk" (4 characters)
TitleRisk ==
  <<"R","i","s","k">>

\* "Planning" (8 characters)
TitlePlanning ==
  <<"P","l","a","n","n","i","n","g">>

\* "Closing" (7 characters)
TitleClosing ==
  <<"C","l","o","s","i","n","g">>

\* "Scope" (5 characters)
TitleScope ==
  <<"S","c","o","p","e">>

\* "Quality" (7 characters)
TitleQuality ==
  <<"Q","u","a","l","i","t","y">>

\* "Managing project risk is part of planning: each risk is reviewed." (65 characters)
BodyPmbokRisk ==
  <<"M","a","n","a","g","i","n","g"," ","p","r","o","j","e","c","t"," ","r",
    "i","s","k"," ","i","s"," ","p","a","r","t"," ","o","f"," ","p","l","a",
    "n","n","i","n","g",":"," ","e","a","c","h"," ","r","i","s","k"," ","i",
    "s"," ","r","e","v","i","e","w","e","d",".">>

\* "A glossary lists the terms of risk management in one place. " (60 characters)
BodySentence ==
  <<"A"," ","g","l","o","s","s","a","r","y"," ","l","i","s","t","s"," ","t",
    "h","e"," ","t","e","r","m","s"," ","o","f"," ","r","i","s","k"," ","m",
    "a","n","a","g","e","m","e","n","t"," ","i","n"," ","o","n","e"," ","p",
    "l","a","c","e","."," ">>

\* "Too short to be indexed." (24 characters)
BodyShort ==
  <<"T","o","o"," ","s","h","o","r","t"," ","t","o"," ","b","e"," ","i","n",
    "d","e","x","e","d",".">>

\* "  Index of the terms used in planning and in the risk reviews." (62 characters)
BodyLeadingIndex ==
  <<" "," ","I","n","d","e","x"," ","o","f"," ","t","h","e"," ","t","e","r",
    "m","s"," ","u","s","e","d"," ","i","n"," ","p","l","a","n","n","i","n",
    "g"," ","a","n","d"," ","i","n"," ","t","h","e"," ","r","i","s","k"," ",
    "r","e","v","i","e","w","s",".">>

\* "The risk management approach says how risk is handled." (54 characters)
BodyPrince2Risk ==
  <<"T","h","e"," ","r","i","s","k"," ","m","a","n","a","g","e","m","e","n",
    "t"," ","a","p","p","r","o","a","c","h"," ","s","a","y","s"," ","h","o",
    "w"," ","r","i","s","k"," ","i","s"," ","h","a","n","d","l","e","d",".">>

\* "Planning of scope and quality follows the management plan." (58 characters)
BodyIsoPlanning ==
  <<"P","l","a","n","n","i","n","g"," ","o","f"," ","s","c","o","p","e"," ",
    "a","n","d"," ","q","u","a","l","i","t","y"," ","f","o","l","l","o","w",
    "s"," ","t","h","e"," ","m","a","n","a","g","e","m","e","n","t"," ","p",
    "l","a","n",".">>

\* "Risk is identified, assessed, treated and reviewed" (50 characters)
BodyFifty ==
  <<"R","i","s","k"," ","i","s"," ","i","d","e","n","t","i","f","i","e","d",
    ","," ","a","s","s","e","s","s","e","d",","," ","t","r","e","a","t","e",
    "d"," ","a","n","d"," ","r","e","v","i","e","w","e","d">>

\* "The quality plan states each management standard." (49 characters)
BodyFortyNine ==
  <<"T","h","e"," ","q","u","a","l","i","t","y"," ","p","l","a","n"," ","s",
    "t","a","t","e","s"," ","e","a","c","h"," ","m","a","n","a","g","e","m",
    "e","n","t"," ","s","t","a","n","d","a","r","d",".">>

\* "It is kept current. " (20 characters)
BodyGlossaryTail ==
  <<"I","t"," ","i","s"," ","k","e","p","t"," ","c","u","r","r","e","n","t",
    "."," ">>

\* "1 Scope 2 Risk management 3 Planning 4 Quality 5 Closing" (56 characters)
BodyContents ==
  <<"1"," ","S","c","o","p","e"," ","2"," ","R","i","s","k"," ","m","a","n",
    "a","g","e","m","e","n","t"," ","3"," ","P","l","a","n","n","i","n","g",
    " ","4"," ","Q","u","a","l","i","t","y"," ","5"," ","C","l","o","s","i",
    "n","g">>

\* "" (0 characters)
QueryEmpty ==
  <<>>

\* "  " (2 characters)
QueryBlank ==
  <<" "," ">>

\* "of a" (4 characters)
QueryShortTokens ==
  <<"o","f"," ","a">>

\* "Risk Management" (15 characters)
QueryRiskManagement ==
  <<"R","i","s","k"," ","M","a","n","a","g","e","m","e","n","t">>

\* "glossary" (8 characters)
QueryGlossary ==
  <<"g","l","o","s","s","a","r","y">>

\* "index" (5 characters)
QueryIndex ==
  <<"i","n","d","e","x">>

\* "managing risks" (14 characters)
QueryManaging ==
  <<"m","a","n","a","g","i","n","g"," ","r","i","s","k","s">>

\* "Baselines" (9 characters)
TitleBaselines ==
  <<"B","a","s","e","l","i","n","e","s">>

\* "Planning sets the baseline for scope, time and the budget." (58 characters)
BodyPlanningBaseline ==
  <<"P","l","a","n","n","i","n","g"," ","s","e","t","s"," ","t","h","e"," ",
    "b","a","s","e","l","i","n","e"," ","f","o","r"," ","s","c","o","p","e",
    ","," ","t","i","m","e"," ","a","n","d"," ","t","h","e"," ","b","u","d",
    "g","e","t",".">>

\* "Scope plan, cost plan, test plan, time plan, team plan, site plan, work plan, exit plan, head plan, data plan, sale plan, game plan, back plan, main plan, base plan, next plan." (176 characters)
BodyPlans ==
  <<"S","c","o","p","e"," ","p","l","a","n",","," ","c","o","s","t"," ","p",
    "l","a","n",","," ","t","e","s","t"," ","p","l","a","n",","," ","t","i",
    "m","e"," ","p","l","a","n",","," ","t","e","a","m"," ","p","l","a","n",
    ","," ","s","i","t","e"," ","p","l","a","n",","," ","w","o","r","k"," ",
    "p","l","a","n",","," ","e","x","i","t"," ","p","l","a","n",","," ","h",
    "e","a","d"," ","p","l","a","n",","," ","d","a","t","a"," ","p","l","a",
    "n",","," ","s","a","l","e"," ","p","l","a","n",","," ","g","a","m","e",
    " ","p","l","a","n",","," ","b","a","c","k"," ","p","l","a","n",","," ",
    "m","a","i","n"," ","p","l","a","n",","," ","b","a","s","e"," ","p","l",
    "a","n",","," ","n","e","x","t"," ","p","l","a","n",".">>

\* "Planning" (8 characters)
QueryPlanning ==
  <<"P","l","a","n","n","i","n","g">>

\* "of zebra" (8 characters)
QueryOfZebra ==
  <<"o","f"," ","z","e","b","r","a">>

\* "manag" (5 characters)
WManag ==
  <<"m","a","n","a","g">>

\* "plan" (4 characters)
WPlan ==
  <<"p","l","a","n">>

\* "glossari" (8 characters)
WGlossari ==
  <<"g","l","o","s","s","a","r","i">>

\* "qualiti" (7 characters)
WQualiti ==
  <<"q","u","a","l","i","t","i">>

\* "management" (10 characters)
WManagement ==
  <<"m","a","n","a","g","e","m","e","n","t">>

\* "managing" (8 characters)
WManaging ==
  <<"m","a","n","a","g","i","n","g">>

\* "planning" (8 characters)
WPlanning ==
  <<"p","l","a","n","n","i","n","g">>

\* "glossary" (8 characters)
WGlossary ==
  <<"g","l","o","s","s","a","r","y">>

\* "quality" (7 characters)
WQuality ==
  <<"q","u","a","l","i","t","y">>

\* "risks" (5 characters)
WRisks ==
  <<"r","i","s","k","s">>

\* "risk" (4 characters)
WRisk ==
  <<"r","i","s","k">>

----------------------------------------------------------------------------
(* Input records: the sections of the processed JSON files.                *)

BodyGlossary == BodySentence \o BodySentence \o BodySentence \o BodyGlossaryTail

\* A section record of a processed file with the fields indexDocument and
\* getDocumentStats read; an absent field is "", <<>> or 0 (falsy like undefined).
SectionRecord(standard, number, sectionTitle, title, text, content, pageStart, pageEnd) ==
  [standard |-> standard, section_number |-> number, sectionId |-> "",
   section_title |-> sectionTitle, title |-> title, text |-> text, content |-> content,
   section_type |-> "", page_start |-> pageStart, page_end |-> pageEnd]

SecPmbokRisk ==
  SectionRecord("PMBOK", "2.1", TitleRiskManagement, <<>>, BodyPmbokRisk, <<>>, 10, 12)

SecPmbokAppendix ==
  SectionRecord("PMBOK", "A", TitleAppendixGlossary, <<>>, BodyGlossary, <<>>, 90, 95)

SecPmbokShort ==
  SectionRecord("PMBOK", "1.1", TitleScope, <<>>, BodyShort, <<>>, 3, 0)

SecPmbokClosing ==
  SectionRecord("PMBOK", "9", TitleClosing, <<>>, BodyLeadingIndex, <<>>, 80, 81)

SecPrince2Risk ==
  SectionRecord("PRINCE2", "4", TitleRisk, <<>>, BodyPrince2Risk, <<>>, 40, 44)

SecPrince2Contents ==
  SectionRecord("PRINCE2", "0", TitleTableOfContents, <<>>, BodyContents, <<>>, 1, 2)

SecPrince2FortyNine ==
  SectionRecord("PRINCE2", "7", TitleQuality, <<>>, BodyFortyNine, <<>>, 50, 0)

\* a record of the ISO file that carries no `standard` field
SecIsoPlanning ==
  SectionRecord("", "5", TitlePlanning, <<>>, BodyIsoPlanning, <<>>, 20, 22)

SecIsoRisk ==
  SectionRecord("ISO_21502", "6", TitleRisk, <<>>, BodyFifty, <<>>, 30, 0)

\* a record in the old layout: `title` and `content`, no `section_title`, no `text`
SecOldQuality ==
  SectionRecord("", "3", <<>>, TitleQuality, <<>>, BodyIsoPlanning, 0, 0)

\* the same record as SecPmbokRisk, with `title` instead of `section_title`
SecOldRisk ==
  SectionRecord("", "2.1", <<>>, TitleRiskManagement, BodyPmbokRisk, <<>>, 10, 12)

\* What JSON.parse returns for a file: a flat array of section records, or a
\* container object with (or without) a `sections` array.
FlatList(sections) == [kind |-> "array", sections |-> sections, hasSections |-> FALSE]

Container(sections) == [kind |-> "object", sections |-> sections, hasSections |-> TRUE]

ContainerWithoutSections == [kind |-> "object", sections |-> <<>>, hasSections |-> FALSE]

\* the initial value of a slot of `documents` (null); a key never assigned
\* (undefined) is falsy in the same way
Null == [kind |-> "null", sections |-> <<>>, hasSections |-> FALSE]

DataPmbok == FlatList(<<SecPmbokRisk, SecPmbokAppendix, SecPmbokShort, SecPmbokClosing>>)

DataPrince2 == FlatList(<<SecPrince2Risk, SecPrince2Contents, SecPrince2FortyNine>>)

DataIso == FlatList(<<SecIsoPlanning, SecIsoRisk>>)

\* the value of a `text` property that is a JSON number, not a string
NumericText == <<"12345">>

\* a record whose `text` is a number
SecIsoNumericText ==
  SectionRecord("ISO_21502", "5.1", TitleScope, <<>>, NumericText, <<>>, 23, 24)

\* a record set whose second record makes indexDocument raise
DataIsoNumericText == FlatList(<<SecIsoPlanning, SecIsoNumericText, SecIsoRisk>>)

\* a section whose title is a query of the pool, and a section that repeats
\* the stem of that title without the title's word
SecOldPlanning ==
  SectionRecord("", "4", <<>>, TitlePlanning, BodyPlanningBaseline, <<>>, 30, 33)

SecOldPlans ==
  SectionRecord("", "4.1", <<>>, TitleBaselines, BodyPlans, <<>>, 34, 36)

\* a container object that also carries the `metadata` and `processing_stats`
\* objects of the old layout
ContainerWithStats(sections, metadata, processing_stats) ==
  [kind |-> "object", sections |-> sections, hasSections |-> TRUE,
   metadata |-> metadata, processing_stats |-> processing_stats]

DataPmbokOld ==
  ContainerWithStats(<<SecOldRisk, SecOldQuality, SecOldPlanning, SecOldPlans>>,
                     [total_pages |-> 36],
                     [total_sections |-> 4, valid_sections |-> 3,
                      processing_success_rate |-> 75])

DataEmpty == FlatList(<<>>)

\* A directory entry: its name, whether readFileSync and JSON.parse succeed on
\* it, and the parsed data when they do.
File(name, status, data) == [name |-> name, status |-> status, data |-> data]

FilePool ==
  { File(FilePmbokJson, "ok", DataPmbok),
    File(FilePrince2Json, "ok", DataPrince2),
    File(FilePrince2Json, "malformed", Null),
    File(FileIsoJson, "ok", DataIso),
    File(FileIsoJson, "ok", DataIsoNumericText),
    File(FilePmbokOldJson, "ok", DataPmbokOld),
    File(FileGlossaryJson, "ok", DataEmpty),
    File(FileNotesTxt, "unreadable", Null) }

\* bound: the number of entries of the processed directory
MaxFiles == 2

\* the directory listings: up to MaxFiles entries with distinct names, in any order
RECURSIVE Listings(_)
Listings(n) ==
  IF n = 0 THEN { <<>> }
  ELSE LET shorter == Listings(n - 1)
       IN shorter \cup
          { Append(l, f) : l \in {x \in shorter : Len(x) = n - 1},
                           f \in FilePool }

DistinctNames(l) == \A i, j \in 1..Len(l) : i # j => l[i].name # l[j].name

Directories == { l \in Listings(MaxFiles) : DistinctNames(l) }

----------------------------------------------------------------------------
(* State.                                                                  *)

VARIABLES
  directory,       \* the listing of backend/data/processed (readdirSync)
  phase,           \* "starting" before loadDocuments has run, then "listening"
  documents,       \* the module-level document store, by standard key
  tfidfDocuments,  \* this.tfidf.documents: one term list per registered text
  sectionsIndex,   \* this.sectionsIndex
  loadFailed,      \* an error was caught and logged by loadDocuments
  response,        \* the request last handled and what it returned
  restarted        \* the process was restarted since that request was handled

vars ==
  <<directory, phase, documents, tfidfDocuments, sectionsIndex, loadFailed, response,
    restarted>>

StandardKeys == {"pmbok", "prince2", "iso", "unknown"}

----------------------------------------------------------------------------
(* SearchEngine.loadDocuments and SearchEngine.indexDocument.              *)

\* the stop words of natural's TfIdf (its English list) that occur in the inputs
StopWords ==
  { <<"a">>, <<"i","s">>, <<"o","f">>, <<"t","h","e">>, <<"i","n">>, <<"t","o">>,
    <<"b","e">>, <<"t","o","o">>, <<"h","o","w">>, <<"a","n","d">>, <<"e","a","c","h">>,
    <<"i","t">>, <<"f","o","r">>, <<"1">>, <<"2">>, <<"3">>, <<"4">>, <<"5">> }

\* TfIdf.addDocument(text): the lower-cased tokens of the text, stop words removed
BuildDocument(text) ==
  SelectSeq(Tokenize(ToLowerCase(text)), LAMBDA t : t \notin StopWords)

\* x || y on strings
OrElse(x, y) == IF x # <<>> THEN x ELSE y

OrElseId(x, y) == IF x # "" THEN x ELSE y

ToUpperCaseKey(key) ==
  CASE key = "pmbok" -> "PMBOK"
    [] key = "prince2" -> "PRINCE2"
    [] key = "iso" -> "ISO"
    [] key = "unknown" -> "UNKNOWN"

\* the minimum body length of an indexed section
MinTextLength == 50

ExcludeKeywordsAtLoad ==
  << KwIndex, KwAppendix, KwAppendices, KwTableOfContents, KwContents,
     KwBibliography, KwReferences >>

\* TooShort with the length test off by one
TooShortOffByOne(section) == section.text = <<>> \/ Len(section.text) < MinTextLength - 1

\* line 71: the section is skipped
TooShort(section) == section.text = <<>> \/ Len(section.text) < MinTextLength

\* ShouldExclude without the test of the title
ShouldExcludeContentOnly(section) ==
  With(ToLowerCase(OrElse(section.text, section.content)), LAMBDA content :
    \E k \in 1..Len(ExcludeKeywordsAtLoad) : StartsWith(content, ExcludeKeywordsAtLoad[k]))

\* lines 74-80: shouldExclude
ShouldExclude(section) ==
  With2(ToLowerCase(OrElse(section.section_title, section.title)),
        ToLowerCase(OrElse(section.text, section.content)),
        LAMBDA title, content :
          \E k \in 1..Len(ExcludeKeywordsAtLoad) :
             \/ Includes(title, ExcludeKeywordsAtLoad[k])
             \/ StartsWith(content, ExcludeKeywordsAtLoad[k]))

\* lines 90-107: the index entry pushed for a section
\* every entry pointing at the first registered document
FirstDocumentIndex(docs) == 0

\* line 106: this.tfidf.documents.length - 1, read after addDocument
LastDocumentIndex(docs) == Len(docs) - 1

IndexEntry(section, standardType, docIndex) ==
  [standardType |-> OrElseId(section.standard, ToUpperCaseKey(standardType)),
   sectionId |-> OrElseId(section.section_number, section.sectionId),
   title |-> OrElse(section.section_title, section.title),
   content |-> OrElse(section.text, section.content),
   sectionType |-> OrElseId(section.section_type, "section"),
   page_start |-> section.page_start,
   page_end |-> section.page_end,
   section_number |-> section.section_number,
   section_title |-> section.section_title,
   standard |-> section.standard,
   text |-> section.text,
   documentIndex |-> docIndex]

\* SectionsOf for the flat list alone
SectionsOfArrayOnly(document) ==
  IF document.kind = "array" THEN document.sections ELSE <<>>

\* line 67
SectionsOf(document) ==
  IF document.kind = "array" THEN document.sections
  ELSE IF document.hasSections THEN document.sections ELSE <<>>

\* lines 71-75: a `text` that is a number is truthy and has no length, so the
\* test of line 71 lets it pass (undefined < 50 is false), and line 75 calls
\* toLowerCase on it, which raises a TypeError
RaisesOnText(section) == section.text = NumericText

\* the sections.forEach of indexDocument, from section i on; eng is the engine
\* [tfidfDocuments, sectionsIndex, threw]: threw says that the forEach was left
\* by an exception; documentIndex is 0-based as in the source
RECURSIVE IndexSections(_, _, _, _)
IndexSections(eng, sections, standardType, i) ==
  IF i > Len(sections) THEN eng
  ELSE With(sections[i], LAMBDA section :
         IF RaisesOnText(section)
         THEN [eng EXCEPT !.threw = TRUE]
         ELSE IF TooShort(section) \/ ShouldExclude(section)
         THEN IndexSections(eng, sections, standardType, i + 1)
         ELSE With(OrElse(section.section_title, section.title) \o <<" ">>
                     \o OrElse(section.text, section.content),
                   LAMBDA sectionText :
           With(Append(eng.tfidfDocuments, BuildDocument(sectionText)), LAMBDA docs :
             With([tfidfDocuments |-> docs,
                   sectionsIndex |-> Append(eng.sectionsIndex,
                                            IndexEntry(section, standardType,
                                                       LastDocumentIndex(docs))),
                   threw |-> FALSE],
                  LAMBDA indexed : IndexSections(indexed, sections, standardType, i + 1)))))

indexDocument(eng, document, standardType) ==
  With2(eng, SectionsOf(document), LAMBDA e, sections :
    IndexSections(e, sections, standardType, 1))

\* lines 46-49
StandardOfFile(name) ==
  IF Includes(name, NamePmbok) THEN "pmbok"
  ELSE IF Includes(name, NamePrince2) THEN "prince2"
  ELSE IF Includes(name, NameIso) THEN "iso"
  ELSE "unknown"

\* The files.forEach of loadDocuments from entry i on, inside the one try block
\* of lines 36-62: a throw of readFileSync or JSON.parse leaves the forEach, so
\* the entries after it are not processed; a throw of indexDocument leaves it
\* too, after line 53 has stored the data and after the sections before the
\* one that raised were indexed.  st is
\* [documents, tfidfDocuments, sectionsIndex, loadFailed].
RECURSIVE LoadFrom(_, _, _)
LoadFrom(files, i, st) ==
  IF i > Len(files) THEN st
  ELSE With(files[i], LAMBDA file :
         IF ~EndsWith(file.name, FileSuffix)
         THEN LoadFrom(files, i + 1, st)
         ELSE IF file.status # "ok"
         THEN [st EXCEPT !.loadFailed = TRUE]
         ELSE With(StandardOfFile(file.name), LAMBDA key :
           With(indexDocument([tfidfDocuments |-> st.tfidfDocuments,
                               sectionsIndex |-> st.sectionsIndex,
                               threw |-> FALSE],
                              file.data, key),
                LAMBDA eng :
             With([documents |-> [st.documents EXCEPT ![key] = file.data],
                   tfidfDocuments |-> eng.tfidfDocuments,
                   sectionsIndex |-> eng.sectionsIndex,
                   loadFailed |-> st.loadFailed \/ eng.threw],
                  LAMBDA loaded :
                    IF eng.threw THEN loaded ELSE LoadFrom(files, i + 1, loaded)))))

----------------------------------------------------------------------------
(* Query processing: the tokenizer, the stemmer and the TF-IDF measure of  *)
(* the `natural` package as search calls them.                             *)

\* natural.PorterStemmer.stem on the words of the bounded queries; a word of
\* fewer than three letters is returned as it is
Stem(w) ==
  CASE w = WManagement -> WManag
    [] w = WManaging -> WManag
    [] w = WPlanning -> WPlan
    [] w = WGlossary -> WGlossari
    [] w = WQuality -> WQualiti
    [] w = WRisks -> WRisk
    [] OTHER -> w

MapSeq(seq, Op(_)) == [i \in 1..Len(seq) |-> Op(seq[i])]

\* lines 122-124
QueryTerms(originalQuery) ==
  SelectSeq(MapSeq(Tokenize(originalQuery), Stem), LAMBDA t : Len(t) > 2)

\* lines 126-127
QueryWords(originalQuery) ==
  SelectSeq(Tokenize(originalQuery), LAMBDA t : Len(t) > 2)

\* 1000 * ln(n), rounded, for n = 1..24
LnThousandths ==
  << 0, 693, 1099, 1386, 1609, 1792, 1946, 2079, 2197, 2303, 2398, 2485,
     2565, 2639, 2708, 2773, 2833, 2890, 2944, 2996, 3045, 3091, 3135, 3178 >>

CountIn(seq, x) == Cardinality({i \in 1..Len(seq) : seq[i] = x})

\* TfIdf.idf(term), in thousandths: 1 + ln(N / (1 + number of documents with the term))
Idf(docs, term) ==
  With(Cardinality({d \in 1..Len(docs) : CountIn(docs[d], term) > 0}), LAMBDA with :
    1000 + LnThousandths[Len(docs)] - LnThousandths[1 + with])

\* this.tfidf.tfidf(term, documentIndex), in thousandths; documentIndex is 0-based
TfIdfOf(docs, term, documentIndex) ==
  CountIn(docs[documentIndex + 1], term) * Idf(docs, term)

\* the sum of the first n members of seq
RECURSIVE SumTo(_, _)
SumTo(seq, n) == IF n = 0 THEN 0 ELSE seq[n] + SumTo(seq, n - 1)

SumSeq(seq) == With(seq \o <<>>, LAMBDA t : SumTo(t, Len(t)))

----------------------------------------------------------------------------
(* The scoring helpers of SearchEngine.                                    *)

\* the lower-cased `${title} ${content}` of an index entry
EntryText(section) ==
  ToLowerCase(OrElse(section.title, section.section_title) \o <<" ">>
                \o OrElse(section.content, section.text))

EntryTitle(section) == ToLowerCase(OrElse(section.title, section.section_title))

countExactMatches(query, section) ==
  With2(EntryText(section), ToLowerCase(query), LAMBDA text, queryLower :
    With2(CountOccurrences(text, queryLower), SplitWhitespace(queryLower),
          LAMBDA exactMatches, words :
            exactMatches * 2
              + SumSeq([i \in 1..Len(words) |-> CountWholeWord(text, words[i])])))

\* partial matches that count the substring test alone
countPartialMatchesSubstringOnly(queryWords, section) ==
  With2(EntryText(section), queryWords, LAMBDA text, words :
    SumSeq([i \in 1..Len(words) |-> IF Includes(text, ToLowerCase(words[i])) THEN 2 ELSE 0]))

\* in halves: 2 for a word that is a substring, 1 more for the letters-in-order pattern
countPartialMatches(queryWords, section) ==
  With2(EntryText(section), queryWords, LAMBDA text, words :
    SumSeq([i \in 1..Len(words) |->
      (IF Includes(text, ToLowerCase(words[i])) THEN 2 ELSE 0)
      + (IF LettersInOrder(text, words[i]) THEN 1 ELSE 0)]))

countTitleMatches(query, section) ==
  With2(EntryTitle(section), ToLowerCase(query), LAMBDA title, queryLower :
    With(SplitWhitespace(queryLower), LAMBDA words :
      (IF Includes(title, queryLower) THEN 3 ELSE 0)
      + Cardinality({i \in 1..Len(words) : Includes(title, words[i])})))

ToUpperChar(c) ==
  IF c \in LowerSet THEN UpperLetters[CHOOSE i \in 1..26 : LowerLetters[i] = c] ELSE c

ExcludeKeywordsAtSearch == << KwIndex, KwAppendix, KwAppendices, KwReferences >>

isAppendixOrIndex(section) ==
  With2(EntryTitle(section), ToLowerCase(OrElse(section.content, section.text)),
        LAMBDA title, content :
          LET titleContainsKeywords ==
                \E k \in 1..Len(ExcludeKeywordsAtSearch) :
                   \/ Includes(title, ExcludeKeywordsAtSearch[k])
                   \/ StartsWith(title, <<ToUpperChar(ExcludeKeywordsAtSearch[k][1])>>)
              contentStartsWithKeywords ==
                With(ToLowerCase(Trim(content)), LAMBDA trimmed :
                  \E k \in 1..Len(ExcludeKeywordsAtSearch) :
                     StartsWith(trimmed, ExcludeKeywordsAtSearch[k]))
          IN titleContainsKeywords \/ contentStartsWithKeywords)

\* [...new Set(matched)]: the first occurrence of each term, in order
RECURSIVE Dedup(_)
Dedup(seq) ==
  With(seq, LAMBDA t :
    IF t = <<>> THEN <<>>
    ELSE With2(Dedup(SubSeq(t, 1, Len(t) - 1)), t[Len(t)], LAMBDA front, last :
           IF \E i \in 1..Len(front) : front[i] = last THEN front ELSE Append(front, last)))

getMatchedTerms(queryWords, section) ==
  With(EntryText(section), LAMBDA text :
    Dedup(SelectSeq(queryWords,
      LAMBDA term : \/ Includes(text, ToLowerCase(term))
                    \/ Includes(text, Stem(ToLowerCase(term))))))

----------------------------------------------------------------------------
(* SearchEngine.search.                                                    *)

\* An options object: `given` names the properties the caller set; a property
\* not given takes the default of the destructuring in lines 112-118.
Options(given, standardType, maxResults, minScore, sectionTypes, excludeAppendix, hideScores) ==
  [given |-> given, standardType |-> standardType, maxResults |-> maxResults,
   minScore |-> minScore, sectionTypes |-> sectionTypes,
   excludeAppendix |-> excludeAppendix, hideScores |-> hideScores]

NoOptions == Options({}, "", 0, 0, {}, FALSE, FALSE)

DefaultMaxResults == 10

\* 0.05, in thousandths
DefaultMinScore == 50

\* 2.0, in thousandths
ExactWeight == 2000

\* 0.3 per partial match, in thousandths per half match
PartialHalfWeight == 150

\* 1.5, in thousandths
TitleWeight == 1500

OptStandardType(options) ==
  IF "standardType" \in options.given THEN options.standardType ELSE ""

OptMaxResults(options) ==
  IF "maxResults" \in options.given THEN options.maxResults ELSE DefaultMaxResults

OptMinScore(options) ==
  IF "minScore" \in options.given THEN options.minScore ELSE DefaultMinScore

OptExcludeAppendix(options) ==
  IF "excludeAppendix" \in options.given THEN options.excludeAppendix ELSE TRUE

OptHideScores(options) == "hideScores" \in options.given /\ options.hideScores

\* lines 138-142: the section is not skipped
PassesFilters(section, options) ==
  /\ OptStandardType(options) # "" => section.standardType = OptStandardType(options)
  /\ "sectionTypes" \in options.given => section.sectionType \in options.sectionTypes
  /\ ~(OptExcludeAppendix(options) /\ isAppendixOrIndex(section))

\* lines 145-162 and 166-173: the section with its score fields; the spread
\* `...section` is kept as the field `entry`
Scored(originalQuery, section) ==
  With2(QueryTerms(originalQuery), QueryWords(originalQuery), LAMBDA queryTerms, queryWords :
    With2(SumSeq([i \in 1..Len(queryTerms) |->
                   TfIdfOf(tfidfDocuments, queryTerms[i], section.documentIndex)]),
          countExactMatches(originalQuery, section),
          LAMBDA totalScore, exactMatches :
      With2(countPartialMatches(queryWords, section),
            countTitleMatches(originalQuery, section),
            LAMBDA partialMatches, titleMatches :
        [entry |-> section,
         score |-> totalScore + exactMatches * ExactWeight
                     + partialMatches * PartialHalfWeight + titleMatches * TitleWeight,
         exactMatches |-> exactMatches,
         partialMatches |-> partialMatches,
         titleMatches |-> titleMatches,
         matchedTerms |-> getMatchedTerms(queryWords, section)])))

\* Included with the threshold alone
IncludedScoreOnly(scored, options) == scored.score >= OptMinScore(options)

\* line 165
Included(scored, options) ==
  \/ scored.score >= OptMinScore(options)
  \/ scored.exactMatches > 0
  \/ scored.titleMatches > 0

\* lines 134-175: the array `scores`, in the order of the index
RECURSIVE ScoresFrom(_, _, _)
ScoresFrom(originalQuery, options, i) ==
  IF i > Len(sectionsIndex) THEN <<>>
  ELSE IF ~PassesFilters(sectionsIndex[i], options)
       THEN ScoresFrom(originalQuery, options, i + 1)
       ELSE With(Scored(originalQuery, sectionsIndex[i]), LAMBDA scored :
              IF Included(scored, options)
              THEN <<scored>> \o ScoresFrom(originalQuery, options, i + 1)
              ELSE ScoresFrom(originalQuery, options, i + 1))

\* Array.prototype.sort((a, b) => b.score - a.score): stable, descending
\* a sort that puts the later of two entries with equal scores first
RECURSIVE SortByScoreLaterFirst(_)
SortByScoreLaterFirst(seq) ==
  With(seq, LAMBDA t :
    IF t = <<>> THEN <<>>
    ELSE With2(SortByScoreLaterFirst(SubSeq(t, 1, Len(t) - 1)), t[Len(t)], LAMBDA front, last :
           With(Cardinality({i \in 1..Len(front) : front[i].score > last.score}),
                LAMBDA keep :
                  SubSeq(front, 1, keep) \o <<last>> \o SubSeq(front, keep + 1, Len(front)))))

RECURSIVE SortByScore(_)
SortByScore(seq) ==
  With(seq, LAMBDA t :
    IF t = <<>> THEN <<>>
    ELSE With2(SortByScore(SubSeq(t, 1, Len(t) - 1)), t[Len(t)], LAMBDA front, last :
           With(Cardinality({i \in 1..Len(front) : front[i].score >= last.score}),
                LAMBDA keep :
                  SubSeq(front, 1, keep) \o <<last>> \o SubSeq(front, keep + 1, Len(front)))))

\* Slice without the cap
SliceUncapped(seq, n) == seq

\* slice(0, n) for n >= 0
Slice(seq, n) == With(seq, LAMBDA t : SubSeq(t, 1, IF n < Len(t) THEN n ELSE Len(t)))

\* BestByStandard without the grouping
BestByStandardUngrouped(sorted, acc) == sorted

\* lines 185-191: resultsByStandard as the list of its values in insertion order
RECURSIVE BestByStandard(_, _)
BestByStandard(sorted, acc) ==
  With2(sorted, acc, LAMBDA rest, best :
    IF rest = <<>> THEN best
    ELSE With(Head(rest), LAMBDA s :
      With({i \in 1..Len(best) : best[i].entry.standardType = s.entry.standardType},
           LAMBDA at :
             IF at = {} THEN BestByStandard(Tail(rest), Append(best, s))
             ELSE With(CHOOSE j \in at : TRUE, LAMBDA i :
                    IF s.score > best[i].score
                    THEN BestByStandard(Tail(rest), [best EXCEPT ![i] = s])
                    ELSE BestByStandard(Tail(rest), best)))))

\* IsEmptyQuery with the early return never taken
IsEmptyQueryNever(queryTerms, queryWords) == FALSE

\* line 129: nothing of the query is left to search for
IsEmptyQuery(queryTerms, queryWords) == queryTerms = <<>> /\ queryWords = <<>>

\* TotalResults counted after the cap
TotalResultsAfterCap(scores, results) == Len(results)

\* line 223
TotalResults(scores, results) == Len(scores)

\* lines 207 and 213: the result without its score fields
\* a clean-up that strips the match counts and the matched terms only
CleanResultKeepingScore(result) == [entry |-> result.entry, score |-> result.score]

CleanResult(result) == [entry |-> result.entry]

\* lines 181-225: what search returns for the candidates `scores`
SearchResult(query, options, queryWords, scores) ==
  With(SortByScore(scores), LAMBDA sortedScores :
    With(IF OptStandardType(options) # ""
         THEN Slice(sortedScores, OptMaxResults(options))
         ELSE SortByScore(BestByStandard(sortedScores, <<>>)),
         LAMBDA results :
      With(IF OptStandardType(options) # ""
           THEN results
           ELSE Slice(sortedScores, OptMaxResults(options)),
           LAMBDA allResults :
        [results |-> IF OptHideScores(options)
                     THEN MapSeq(results, CleanResult) \o <<>> ELSE results,
         allResults |-> IF OptHideScores(options)
                        THEN MapSeq(allResults, CleanResult) \o <<>> ELSE allResults,
         query |-> query,
         totalResults |-> TotalResults(scores, results),
         queryTerms |-> queryWords])))

search(query, options) ==
  With2(query, options, LAMBDA q, opts :
    With(ToLowerCase(q), LAMBDA originalQuery :
      With2(QueryTerms(originalQuery), QueryWords(originalQuery),
            LAMBDA queryTerms, queryWords :
        IF IsEmptyQuery(queryTerms, queryWords)
        THEN [results |-> <<>>, query |-> q, totalResults |-> 0]
        ELSE With(ScoresFrom(originalQuery, opts, 1), LAMBDA scores :
               SearchResult(q, opts, queryWords, scores)))))

----------------------------------------------------------------------------
(* SearchEngine.compareAcrossStandards.                                    *)

ComparedStandards == {"pmbok", "prince2", "iso"}

\* lines 334-338
standardMap(standard) ==
  CASE standard = "pmbok" -> "PMBOK"
    [] standard = "prince2" -> "PRINCE2"
    [] standard = "iso" -> "ISO_21502"

\* CompareSearchOptions with the caller's options spread last
CompareSearchOptionsCallerWins(options, standard) ==
  [options EXCEPT !.given = @ \cup {"standardType", "maxResults"},
                  !.standardType = IF "standardType" \in options.given
                                   THEN options.standardType ELSE standardMap(standard),
                  !.maxResults = IF "maxResults" \in options.given
                                 THEN options.maxResults ELSE 1]

\* lines 343-347: the caller's options, then standardType and maxResults over them
CompareSearchOptions(options, standard) ==
  [options EXCEPT !.given = @ \cup {"standardType", "maxResults"},
                  !.standardType = standardMap(standard),
                  !.maxResults = 1]

\* line 342
HasDocument(standard) == documents[standard] # Null

\* SummaryEntry with the count of candidates as it is
SummaryEntryRawCount(searchResults) ==
  [totalResults |-> searchResults.totalResults,
   hasResults |-> Len(searchResults.results) > 0]

\* lines 356-359: the summary entry of a standard
SummaryEntry(searchResults) ==
  [totalResults |-> IF searchResults.totalResults > 0 THEN 1 ELSE 0,
   hasResults |-> Len(searchResults.results) > 0]

\* lines 341-361: one turn of the loop over the standards: the list and the
\* summary entry of a loaded standard
CompareStandard(query, options, standard) ==
  IF ~HasDocument(standard) THEN [list |-> <<>>]
  ELSE With(search(query, CompareSearchOptions(options, standard)), LAMBDA searchResults :
         [list |-> MapSeq(searchResults.results, CleanResult) \o <<>>,
          summary |-> SummaryEntry(searchResults)])

compareAcrossStandards(query, options) ==
  With([pmbok |-> CompareStandard(query, options, "pmbok"),
        prince2 |-> CompareStandard(query, options, "prince2"),
        iso |-> CompareStandard(query, options, "iso")],
       LAMBDA turn :
         [pmbok |-> turn.pmbok.list,
          prince2 |-> turn.prince2.list,
          iso |-> turn.iso.list,
          query |-> query,
          summary |-> [standard \in {s \in ComparedStandards : HasDocument(s)} |->
                         turn[standard].summary]])

----------------------------------------------------------------------------
(* The requests handled once the server listens.                           *)

QueryPool ==
  { QueryEmpty, QueryBlank, QueryShortTokens, QueryRiskManagement,
    QueryGlossary, QueryIndex, QueryManaging, QueryPlanning, QueryOfZebra }

\* bound: the largest maxResults a caller passes explicitly
MaxResultsArg == 1

\* a minScore above every score of the bounded inputs (1000.0)
HugeMinScore == 1000000

StandardArgs == {"", "PMBOK", "PRINCE2", "XYZ"}

\* a standard filter (or none) combined with an explicit maxResults (or none),
\* or with one of the other options
SearchOptionPool ==
  LET standardPart == { Options(IF s = "" THEN {} ELSE {"standardType"}, s, 0, 0, {}, FALSE, FALSE) :
                          s \in StandardArgs }
      maxPart == { Options({"maxResults"}, "", n, 0, {}, FALSE, FALSE) : n \in 0..MaxResultsArg }
      otherPart == { NoOptions,
                     Options({"minScore"}, "", 0, HugeMinScore, {}, FALSE, FALSE),
                     Options({"sectionTypes"}, "", 0, 0, {"chapter"}, FALSE, FALSE),
                     Options({"excludeAppendix"}, "", 0, 0, {}, FALSE, FALSE),
                     Options({"excludeAppendix"}, "", 0, 0, {}, TRUE, FALSE),
                     Options({"hideScores"}, "", 0, 0, {}, FALSE, TRUE) }
  IN { Options(a.given \cup b.given, a.standardType, b.maxResults,
               b.minScore, b.sectionTypes, b.excludeAppendix, b.hideScores) :
         a \in standardPart, b \in maxPart \cup otherPart }

CompareOptionPool ==
  { NoOptions,
    Options({"maxResults"}, "", MaxResultsArg + 1, 0, {}, FALSE, FALSE),
    Options({"standardType", "maxResults"}, "PRINCE2", MaxResultsArg + 1, 0, {}, FALSE, FALSE),
    Options({"minScore"}, "", 0, HugeMinScore, {}, FALSE, FALSE),
    Options({"excludeAppendix"}, "", 0, 0, {}, FALSE, FALSE) }

NoResponse == [op |-> "none"]

Init ==
  /\ directory \in Directories
  /\ phase = "starting"
  /\ documents = [k \in StandardKeys |-> Null]
  /\ tfidfDocuments = <<>>
  /\ sectionsIndex = <<>>
  /\ loadFailed = FALSE
  /\ response = NoResponse
  /\ restarted = FALSE

\* lines 409-412 and 519: the engine is constructed, loadDocuments runs to its
\* end, then the server listens
loadDocuments ==
  /\ phase = "starting"
  /\ LET st == LoadFrom(directory, 1,
                 [documents |-> documents, tfidfDocuments |-> tfidfDocuments,
                  sectionsIndex |-> sectionsIndex, loadFailed |-> FALSE])
     IN /\ documents' = st.documents
        /\ tfidfDocuments' = st.tfidfDocuments
        /\ sectionsIndex' = st.sectionsIndex
        /\ loadFailed' = st.loadFailed
  /\ phase' = "listening"
  /\ UNCHANGED <<directory, response, restarted>>

\* GET /api/search, as far as SearchEngine.search: a pure read of the engine.
\* Node handles one request at a time: the handler runs to its end and its
\* response is sent before the next request is taken.
\* a server that accepts requests from the moment the process starts
ListeningFromStart == TRUE

\* lines 408-412 and 518-527: the module body runs searchEngine.loadDocuments()
\* to its end, synchronously, before it reaches app.listen; requests are
\* accepted from then on
Listening == phase = "listening"

\* a read that takes the first entry off the index (Array.prototype.shift)
IndexShiftedByRead == SubSeq(sectionsIndex, 2, Len(sectionsIndex))

\* lines 134-202, 341-351 and 369-402: the index after a request was handled.
\* search walks this.sectionsIndex with forEach, spreads each entry into a new
\* object pushed on the local array `scores`, and sorts and slices that array;
\* the comparator and the statistics only call search and read `documents`.
IndexAfterRead == sectionsIndex

Search ==
  /\ Listening
  /\ response = NoResponse
  /\ \E q \in QueryPool, o \in SearchOptionPool :
        response' = [op |-> "search", query |-> q, options |-> o, returned |-> search(q, o)]
  /\ sectionsIndex' = IndexAfterRead
  /\ UNCHANGED <<directory, phase, documents, tfidfDocuments, loadFailed, restarted>>

\* GET /api/compare, as far as SearchEngine.compareAcrossStandards
Compare ==
  /\ Listening
  /\ response = NoResponse
  /\ \E q \in QueryPool, o \in CompareOptionPool :
        response' = [op |-> "compare", query |-> q, options |-> o,
                     returned |-> compareAcrossStandards(q, o)]
  /\ sectionsIndex' = IndexAfterRead
  /\ UNCHANGED <<directory, phase, documents, tfidfDocuments, loadFailed, restarted>>

\* res.json(...): the response leaves the server
Respond ==
  /\ response # NoResponse
  /\ response' = NoResponse
  /\ restarted' = FALSE
  /\ UNCHANGED <<directory, phase, documents, tfidfDocuments, sectionsIndex, loadFailed>>

\* a JavaScript number that may be NaN or -Infinity
Number(n) == [kind |-> "number", value |-> n]

NaN == [kind |-> "NaN"]

NegativeInfinity == [kind |-> "-Infinity"]

\* the body length of a valid section in the statistics
StatsMinTextLength == 50

\* doc.a?.b || 0 for the objects a that a container may carry
FieldOrZero(doc, a, b) ==
  IF a \in DOMAIN doc THEN (IF b \in DOMAIN doc[a] THEN doc[a][b] ELSE 0) ELSE 0

\* Math.round(x / y * 100) for x >= 0 and y > 0: halves are rounded up
RoundedPercentage(x, y) == (200 * x + y) \div (2 * y)

\* line 380: Math.max(...doc.map(s => s.page_end || s.page_start || 0))
MaxPage(doc) ==
  IF doc = <<>> THEN NegativeInfinity
  ELSE Number(Max({IF doc[i].page_end # 0 THEN doc[i].page_end ELSE doc[i].page_start :
                     i \in 1..Len(doc)}))

\* doc.a?.b || other for a string property
FieldOrElse(doc, a, b, other) ==
  IF a \in DOMAIN doc THEN (IF b \in DOMAIN doc[a] THEN doc[a][b] ELSE other) ELSE other

\* lines 373-389: the statistics of a record set held as a flat list
FlatListStats(doc, key) ==
  With(Cardinality({i \in 1..Len(doc) :
                      doc[i].text # <<>> /\ Len(doc[i].text) >= StatsMinTextLength}),
       LAMBDA validSections :
         [title |-> IF doc = <<>> THEN ToUpperCaseKey(key)
                    ELSE OrElseId(doc[1].standard, ToUpperCaseKey(key)),
          standardType |-> IF doc = <<>> THEN ToUpperCaseKey(key)
                           ELSE OrElseId(doc[1].standard, ToUpperCaseKey(key)),
          totalSections |-> Len(doc),
          validSections |-> validSections,
          successRate |-> IF Len(doc) = 0 THEN NaN
                          ELSE Number(RoundedPercentage(validSections, Len(doc))),
          totalPages |-> IF MaxPage(doc) = Number(0) THEN Number(0) ELSE MaxPage(doc)])

\* lines 391-399: the statistics of a record set held as a container object
ContainerStats(doc, key) ==
  [title |-> FieldOrElse(doc, "metadata", "title", ToUpperCaseKey(key)),
   standardType |-> FieldOrElse(doc, "metadata", "standard_type", ToUpperCaseKey(key)),
   totalSections |-> FieldOrZero(doc, "processing_stats", "total_sections"),
   validSections |-> FieldOrZero(doc, "processing_stats", "valid_sections"),
   successRate |-> Number(FieldOrZero(doc, "processing_stats", "processing_success_rate")),
   totalPages |-> Number(FieldOrZero(doc, "metadata", "total_pages"))]

\* lines 366-405
getDocumentStats ==
  [key \in {k \in StandardKeys : documents[k] # Null} |->
     IF documents[key].kind = "array" THEN FlatListStats(documents[key].sections, key)
     ELSE ContainerStats(documents[key], key)]

\* GET /api/stats
Stats ==
  /\ Listening
  /\ response = NoResponse
  /\ response' = [op |-> "stats", returned |-> getDocumentStats]
  /\ sectionsIndex' = IndexAfterRead
  /\ UNCHANGED <<directory, phase, documents, tfidfDocuments, loadFailed, restarted>>

Next == loadDocuments \/ Search \/ Compare \/ Stats \/ Respond

Spec == Init /\ [][Next]_vars

\* lines 15-19: the document store of a new process
EmptyStore == [k \in StandardKeys |-> Null]

\* a constructor that finds the index of the process before
ConstructorKeepingIndex ==
  [tfidfDocuments |-> tfidfDocuments, sectionsIndex |-> sectionsIndex]

\* lines 27-31: the engine a new process constructs
Constructor == [tfidfDocuments |-> <<>>, sectionsIndex |-> <<>>]

\* The process is restarted over the same processed directory: the module is
\* evaluated again (lines 15-19 and 409), loadDocuments is to run again.  The
\* answer the process before gave is kept, to be compared with what the new
\* process returns for the same request.
Restart ==
  /\ phase = "listening"
  /\ response # NoResponse
  /\ phase' = "starting"
  /\ documents' = EmptyStore
  /\ tfidfDocuments' = Constructor.tfidfDocuments
  /\ sectionsIndex' = Constructor.sectionsIndex
  /\ loadFailed' = FALSE
  /\ restarted' = TRUE
  /\ UNCHANGED <<directory, response>>

\* bound: the number of entries of the processed directory of a process that
\* is restarted
MaxFilesAcrossRestart == 1

InitWithRestart == Init /\ Len(directory) <= MaxFilesAcrossRestart

\* the same sections in the other layout: a flat list as the `sections` field of
\* a container object, the `sections` field of a container as a flat list
OtherLayout(data) ==
  IF data.kind = "array" THEN Container(data.sections)
  ELSE IF data.kind = "object" /\ data.hasSections THEN FlatList(data.sections)
  ELSE data

InOtherLayout(files) == [i \in 1..Len(files) |-> [files[i] EXCEPT !.data = OtherLayout(@)]]

\* The processed files are written again in the other layout and the process
\* is restarted over them; the answer the process before gave is kept.
RestartInOtherLayout ==
  /\ phase = "listening"
  /\ response # NoResponse
  /\ directory' = InOtherLayout(directory)
  /\ phase' = "starting"
  /\ documents' = EmptyStore
  /\ tfidfDocuments' = Constructor.tfidfDocuments
  /\ sectionsIndex' = Constructor.sectionsIndex
  /\ loadFailed' = FALSE
  /\ restarted' = TRUE
  /\ UNCHANGED response

NextWithOtherLayout ==
  loadDocuments \/ Search \/ Compare \/ Stats \/ Respond \/ RestartInOtherLayout

SpecWithOtherLayout == InitWithRestart /\ [][NextWithOtherLayout]_vars

NextWithRestart == loadDocuments \/ Search \/ Compare \/ Stats \/ Respond \/ Restart

SpecWithRestart == InitWithRestart /\ [][NextWithRestart]_vars

----------------------------------------------------------------------------
(* Properties.                                                             *)

SearchResponse == response.op = "search"

CompareResponse == response.op = "compare"

\* the lists of a record returned by search (the empty-query record has no allResults)
ResultsOf(returned) == returned.results

AllResultsOf(returned) == IF "allResults" \in DOMAIN returned THEN returned.allResults ELSE <<>>

Elements(seq) == {seq[i] : i \in 1..Len(seq)}

ReturnedEntries(returned) ==
  {r.entry : r \in Elements(ResultsOf(returned)) \cup Elements(AllResultsOf(returned))}

\* the sections of the record sets held in the document store
StoredSections == UNION {Elements(SectionsOf(documents[k])) : k \in StandardKeys}

IndexedEntries == Elements(sectionsIndex)

NoiseTitleKeywords ==
  { KwIndex, KwAppendix, KwAppendices, KwTableOfContents, KwContents,
    KwBibliography, KwReferences }

HasNoiseTitle(title) == \E k \in NoiseTitleKeywords : Includes(ToLowerCase(title), k)

\* the query leaves something to search for
QueryHasTerms(query) ==
  QueryTerms(ToLowerCase(query)) # <<>> \/ QueryWords(ToLowerCase(query)) # <<>>

\* C1: the noise classification is never applied at load time: a stored section
\* with a body of at least 50 characters is returned by an unfiltered search with
\* excludeAppendix = false whose query it matches (here: occurs as a whole word
\* or phrase in its title or body), the default maxResults leaving room for it.
C1_NoiseSectionsStayEligible ==
  ( /\ SearchResponse
    /\ response.options.given = {"excludeAppendix"}
    /\ ~response.options.excludeAppendix
    /\ QueryHasTerms(response.query) )
  => \A section \in StoredSections :
       ( /\ Len(section.text) >= 50
         /\ countExactMatches(ToLowerCase(response.query), IndexEntry(section, "unknown", 0)) > 0
         /\ response.returned.totalResults <= DefaultMaxResults )
       => \E r \in Elements(AllResultsOf(response.returned)) :
            /\ r.entry.text = section.text
            /\ r.entry.title = OrElse(section.section_title, section.title)

\* C2: with excludeAppendix true or omitted, no section in results or allResults
\* of search has a title containing, case-insensitively, one of the seven noise
\* keywords.
C2_NoNoiseTitleReturned ==
  (SearchResponse /\ OptExcludeAppendix(response.options))
  => \A e \in ReturnedEntries(response.returned) :
       ~HasNoiseTitle(e.title) /\ ~HasNoiseTitle(e.section_title)

\* a search with the exclusion on returned something while the store holds a
\* section with a noise title, a long enough body and a match for the query
C2_Witness ==
  /\ SearchResponse
  /\ OptExcludeAppendix(response.options)
  /\ Len(ResultsOf(response.returned)) > 0
  /\ \E section \in StoredSections :
       /\ HasNoiseTitle(OrElse(section.section_title, section.title))
       /\ Len(section.text) >= 50
       /\ countExactMatches(ToLowerCase(response.query), IndexEntry(section, "unknown", 0)) > 0

\* C3 as stated: for every query and option set the results list of search has
\* length <= maxResults.
C3_ResultsWithinMaxResults ==
  SearchResponse => Len(ResultsOf(response.returned)) <= OptMaxResults(response.options)

IndexedStandards == {e.standardType : e \in IndexedEntries}

\* C3 as amended: with a standard filter results (= allResults) has length
\* <= maxResults; without one allResults has length <= maxResults and results
\* holds at most one entry per standard of the index.
C3_CappedListWithinMaxResults ==
  SearchResponse =>
    IF OptStandardType(response.options) # ""
    THEN /\ Len(ResultsOf(response.returned)) <= OptMaxResults(response.options)
         /\ "allResults" \in DOMAIN response.returned
              => response.returned.allResults = response.returned.results
    ELSE /\ Len(AllResultsOf(response.returned)) <= OptMaxResults(response.options)
         /\ Len(ResultsOf(response.returned)) <= Cardinality(IndexedStandards)

\* a filtered search whose list was cut to an explicit maxResults
C3_Witness ==
  /\ SearchResponse
  /\ OptStandardType(response.options) # ""
  /\ "maxResults" \in response.options.given
  /\ Len(ResultsOf(response.returned)) = response.options.maxResults
  /\ response.returned.totalResults > response.options.maxResults

\* C4: totalResults is the number of candidates before capping, and
\* totalResults >= results.length, also for the empty-query record and with
\* hideScores.
C4_TotalResultsCountsCandidates ==
  SearchResponse =>
    /\ response.returned.totalResults =
         IF QueryHasTerms(response.query)
         THEN Len(ScoresFrom(ToLowerCase(response.query), response.options, 1))
         ELSE 0
    /\ response.returned.totalResults >= Len(ResultsOf(response.returned))

\* more candidates than the cap let through
C4_Witness ==
  /\ SearchResponse
  /\ Len(ResultsOf(response.returned)) >= 1
  /\ response.returned.totalResults > Len(ResultsOf(response.returned))

\* every section a search or a comparison returns
ResponseEntries ==
  IF SearchResponse THEN ReturnedEntries(response.returned)
  ELSE IF CompareResponse
       THEN {r.entry : r \in UNION {Elements(response.returned[s]) : s \in ComparedStandards}}
       ELSE {}

\* C5: every entry of the section index has a body of at least 50 characters,
\* and so has every section returned by search or compare.
C5_IndexedBodiesAtLeastFifty ==
  /\ \A e \in IndexedEntries : Len(e.content) >= 50 /\ Len(e.text) >= 50
  /\ \A e \in ResponseEntries : Len(e.content) >= 50 /\ Len(e.text) >= 50

\* a request was answered with a section while the store holds shorter sections
C5_Witness ==
  /\ ResponseEntries # {}
  /\ \E section \in StoredSections : section.text # <<>> /\ Len(section.text) = 49
  /\ \E section \in StoredSections : section.text = <<>> /\ section.content # <<>>

\* the sections of a record set that indexDocument does not skip
Indexable(section) == ~TooShort(section) /\ ~ShouldExclude(section)

\* C6: load failures are isolated per standard: after loadDocuments every
\* well-formed JSON file of the directory is stored under its standard key and
\* its indexable sections are in the index, whatever the order of the files.
C6_WellFormedFilesLoaded ==
  phase = "listening" =>
    \A i \in 1..Len(directory) :
       (EndsWith(directory[i].name, FileSuffix) /\ directory[i].status = "ok")
       => /\ documents[StandardOfFile(directory[i].name)] # Null
          /\ \A section \in Elements(SectionsOf(directory[i].data)) :
               Indexable(section) => \E e \in IndexedEntries : e.text = section.text

\* C7: the comparison record has neither a result list nor a summary entry for
\* a standard with no loaded corpus or with zero loaded sections.
C7_UnloadedStandardsOmitted ==
  CompareResponse =>
    \A s \in ComparedStandards :
       (documents[s] = Null \/ SectionsOf(documents[s]) = <<>>)
       => s \notin DOMAIN response.returned /\ s \notin DOMAIN response.returned.summary

\* C8: each per-standard list of the comparison record holds at most one
\* section, of the standard it is listed under, whatever options the caller gave.
C8_AtMostOneOwnSectionPerStandard ==
  CompareResponse =>
    \A s \in ComparedStandards :
       /\ Len(response.returned[s]) <= 1
       /\ \A r \in Elements(response.returned[s]) : r.entry.standardType = standardMap(s)

\* the caller asked for more results of another standard, and the standard still
\* has its own single section although two of its sections are candidates
C8_Witness ==
  /\ CompareResponse
  /\ {"standardType", "maxResults"} \subseteq response.options.given
  /\ response.options.maxResults > 1
  /\ response.options.standardType # standardMap("pmbok")
  /\ Len(response.returned["pmbok"]) = 1
  /\ Cardinality({e \in IndexedEntries : e.standardType = "PMBOK"}) >= 2

\* C9: when the query leaves neither a stemmed term nor a raw word, search
\* returns results = [] and totalResults = 0.
C9_EmptyQueryReturnsNothing ==
  (SearchResponse /\ ~QueryHasTerms(response.query))
  => /\ response.returned.results = <<>>
     /\ response.returned.totalResults = 0

\* an empty, blank or short-token query was answered over a non-empty index
C9_Witness ==
  /\ SearchResponse
  /\ ~QueryHasTerms(response.query)
  /\ response.query # <<>>
  /\ Tokenize(response.query) # <<>>
  /\ sectionsIndex # <<>>
  /\ response.returned.results = <<>>

\* the inclusion rule for an index entry: composite score >= minScore, or an
\* exact match, or a title match
MeetsInclusionRule(query, options, e) ==
  LET s == Scored(ToLowerCase(query), e)
  IN s.score >= OptMinScore(options) \/ s.exactMatches >= 1 \/ s.titleMatches >= 1

ExpectedCandidates(query, options) ==
  {e \in IndexedEntries : PassesFilters(e, options) /\ MeetsInclusionRule(query, options, e)}

\* C10: a section that passes the filters is a candidate iff its composite score
\* >= minScore or it has an exact match or a title match: the candidates counted
\* by totalResults are those sections, every returned section is one of them, and
\* a list that was not cut holds all of them.
C10_CandidateIffRule ==
  (SearchResponse /\ QueryHasTerms(response.query))
  => LET expected == ExpectedCandidates(response.query, response.options)
         listed == {r.entry : r \in Elements(AllResultsOf(response.returned))}
     IN /\ response.returned.totalResults = Cardinality(expected)
        /\ ReturnedEntries(response.returned) \subseteq expected
        /\ Len(AllResultsOf(response.returned)) = response.returned.totalResults
             => listed = expected

\* a section was kept by its exact or title match although minScore is above
\* its composite score
C10_Witness ==
  /\ SearchResponse
  /\ "minScore" \in response.options.given
  /\ \E r \in Elements(ResultsOf(response.returned)) :
       r.score < response.options.minScore /\ r.titleMatches >= 1

\* the candidates of the search that was answered, with their scores
CandidatesOfResponse ==
  Elements(ScoresFrom(ToLowerCase(response.query), response.options, 1))

\* the composite score of a returned entry (also when hideScores removed it)
ScoreOfEntry(candidates, entry) == (CHOOSE c \in candidates : c.entry = entry).score

\* C11: without a standard filter, results holds exactly one entry for each
\* standard that has a candidate and none for other standards; the entry of a
\* standard is a candidate of that standard with the maximal composite score,
\* and results is in descending order of these scores.
C11_OneBestEntryPerStandard ==
  (SearchResponse /\ OptStandardType(response.options) = "" /\ QueryHasTerms(response.query))
  => LET candidates == CandidatesOfResponse
         results == ResultsOf(response.returned)
     IN /\ \A i \in 1..Len(results) : \E c \in candidates : c.entry = results[i].entry
        /\ {results[i].entry.standardType : i \in 1..Len(results)}
             = {c.entry.standardType : c \in candidates}
        /\ \A i, j \in 1..Len(results) :
             i # j => results[i].entry.standardType # results[j].entry.standardType
        /\ \A i \in 1..Len(results) : \A c \in candidates :
             c.entry.standardType = results[i].entry.standardType
               => c.score <= ScoreOfEntry(candidates, results[i].entry)
        /\ \A i \in 1..(Len(results) - 1) :
             ScoreOfEntry(candidates, results[i].entry)
               >= ScoreOfEntry(candidates, results[i + 1].entry)

\* an unfiltered search answered with the best entries of two standards, one of
\* which had several candidates, the index holding the lower-scored standard first
C11_Witness ==
  /\ SearchResponse
  /\ OptStandardType(response.options) = ""
  /\ Len(ResultsOf(response.returned)) >= 2
  /\ response.returned.totalResults > Len(ResultsOf(response.returned))
  /\ \E i, j \in 1..Len(sectionsIndex) :
       /\ i < j
       /\ sectionsIndex[j] = response.returned.results[1].entry
       /\ sectionsIndex[i] = response.returned.results[2].entry

\* the standard filter or the section-type filter of the answered search names
\* a value that no indexed section carries
FilterNamesUnknownValue ==
  \/ /\ OptStandardType(response.options) # ""
     /\ OptStandardType(response.options) \notin IndexedStandards
  \/ /\ "sectionTypes" \in response.options.given
     /\ \A e \in IndexedEntries : e.sectionType \notin response.options.sectionTypes

\* C12: a search whose standard filter or section-type filter names a value that
\* no indexed section carries returns results = [], allResults = [] and
\* totalResults = 0.
C12_UnknownFilterReturnsEmptySet ==
  (SearchResponse /\ FilterNamesUnknownValue)
  => /\ response.returned.results = <<>>
     /\ "allResults" \in DOMAIN response.returned
     /\ response.returned.allResults = <<>>
     /\ response.returned.totalResults = 0

\* the candidates of the answered search in ranking order, before the cap
RankedCandidatesOfResponse ==
  SortByScore(ScoresFrom(ToLowerCase(response.query), response.options, 1))

\* C13: for an indexed section S and a query equal to S's exact title, S's
\* title-match count is at least 3, and in a search filtered to S's standard S
\* ranks above every candidate of that standard that has no exact match and no
\* title match.
C13_ExactTitleOutranksUnmatched ==
  (SearchResponse /\ OptStandardType(response.options) # "" /\ QueryHasTerms(response.query))
  => \A S \in IndexedEntries :
       ( /\ S.title = response.query
         /\ S.standardType = OptStandardType(response.options)
         /\ PassesFilters(S, response.options) )
       => LET ranked == RankedCandidatesOfResponse
          IN /\ \E i \in 1..Len(ranked) : ranked[i].entry = S /\ ranked[i].titleMatches >= 3
             /\ \A i, j \in 1..Len(ranked) :
                  ( /\ ranked[i].entry = S
                    /\ ranked[j].exactMatches = 0
                    /\ ranked[j].titleMatches = 0 )
                  => i < j

\* what the engine of the current process returns for the request of `response`
AnswerNow ==
  IF SearchResponse THEN search(response.query, response.options)
  ELSE IF CompareResponse THEN compareAcrossStandards(response.query, response.options)
  ELSE getDocumentStats

EntriesOfRecordSet(standard) ==
  {e \in IndexedEntries :
     \E section \in Elements(SectionsOf(documents[standard])) :
        e = IndexEntry(section, standard, e.documentIndex)}

\* the caller's options of a comparison, without a standard filter
OptionsAcrossStandards(options) == [options EXCEPT !.given = @ \ {"standardType"}]

\* the entries of a standard's record set that are candidates for the query of
\* the answered comparison
OwnCandidates(standard) ==
  {e \in EntriesOfRecordSet(standard) :
     /\ PassesFilters(e, OptionsAcrossStandards(response.options))
     /\ MeetsInclusionRule(response.query, response.options, e)}

\* C15: for each of pmbok, prince2 and iso with a loaded corpus,
\* compareAcrossStandards lists under the standard the top-ranked candidate
\* among the index entries built from that standard's record set: whenever one
\* of them is a candidate for the query, the standard's list is non-empty, its
\* entry is such a candidate of maximal score, and hasResults is true.
C15_CompareListsBestOfRecordSet ==
  (CompareResponse /\ QueryHasTerms(response.query))
  => \A s \in ComparedStandards :
       (HasDocument(s) /\ OwnCandidates(s) # {})
       => /\ Len(response.returned[s]) > 0
          /\ response.returned.summary[s].hasResults
          /\ \E best \in OwnCandidates(s) :
               /\ response.returned[s][1].entry = best
               /\ \A e \in OwnCandidates(s) :
                    Scored(ToLowerCase(response.query), e).score
                      <= Scored(ToLowerCase(response.query), best).score

\* the number of candidates of the search that a comparison runs for a standard
FilteredCandidates(standard) ==
  IF QueryHasTerms(response.query)
  THEN Len(ScoresFrom(ToLowerCase(response.query),
                      CompareSearchOptions(response.options, standard), 1))
  ELSE 0

\* C16: each summary entry of a comparison has totalResults in {0, 1}, 1 exactly
\* when the filtered search for the standard had a candidate, and hasResults is
\* true exactly when totalResults is 1 and the standard's list is non-empty.
C16_SummaryIsNormalized ==
  CompareResponse =>
    \A s \in DOMAIN response.returned.summary :
       LET entry == response.returned.summary[s]
       IN /\ entry.totalResults \in {0, 1}
          /\ entry.totalResults = 1 <=> FilteredCandidates(s) >= 1
          /\ entry.hasResults <=> (entry.totalResults = 1 /\ Len(response.returned[s]) > 0)

\* a comparison with a standard that had several candidates and one that had none
C16_Witness ==
  /\ CompareResponse
  /\ \E s, t \in DOMAIN response.returned.summary :
       /\ FilteredCandidates(s) >= 2
       /\ response.returned.summary[s].totalResults = 1
       /\ response.returned.summary[s].hasResults
       /\ response.returned.summary[t].totalResults = 0
       /\ ~response.returned.summary[t].hasResults

\* what loadDocuments builds from the files of the directory in the other layout
LoadedFromOtherLayout ==
  LoadFrom(InOtherLayout(directory), 1,
           [documents |-> EmptyStore, tfidfDocuments |-> <<>>, sectionsIndex |-> <<>>,
            loadFailed |-> FALSE])

\* C17: indexing a standard from a flat list L and from a container object
\* whose `sections` field is L gives the same index entries in the same order,
\* and the same search and compare results: the engine loaded from the files in
\* the other layout has the same index and the same TF-IDF documents, and it
\* returns what the engine before returned for the same request.
C17_LayoutsIndexedAlike ==
  /\ (phase = "listening" /\ response = NoResponse)
       => \E other \in {LoadedFromOtherLayout} :
            /\ other.sectionsIndex = sectionsIndex
            /\ other.tfidfDocuments = tfidfDocuments
            /\ \A k \in StandardKeys : (other.documents[k] = Null) <=> (documents[k] = Null)
  /\ (phase = "listening" /\ restarted /\ (SearchResponse \/ CompareResponse))
       => \E now \in {AnswerNow} : now = response.returned

\* a request answered with a section by an engine loaded from a flat list is
\* answered again by an engine loaded from the container form of that list
C17_Witness ==
  /\ phase = "listening"
  /\ restarted
  /\ response # NoResponse
  /\ ResponseEntries # {}
  /\ \E i \in 1..Len(directory) :
       /\ directory[i].data.kind = "object"
       /\ File(directory[i].name, "ok", FlatList(directory[i].data.sections)) \in FilePool
       /\ \E e \in ResponseEntries :
            \E j \in 1..Len(directory[i].data.sections) :
               e.text = directory[i].data.sections[j].text

StatsResponse == response.op = "stats"

\* the largest page number among the sections of a record set, 0 if there is none
LargestPage(sections) ==
  Max({0} \cup {sections[i].page_start : i \in 1..Len(sections)}
          \cup {sections[i].page_end : i \in 1..Len(sections)})

SectionsWithBody(sections) ==
  Cardinality({i \in 1..Len(sections) : Len(sections[i].text) >= 50})

\* C18: for every loaded standard, in the flat-list or the container form and
\* also with zero sections, getDocumentStats reports totalSections = the number
\* of its sections, validSections = the number of its sections with a body of
\* at least 50 characters, successRate = the percentage validSections /
\* totalSections as a number between 0 and 100, and totalPages = the largest
\* page number observed, a number >= 0.
C18_StatsDescribeRecordSet ==
  StatsResponse =>
    \A key \in StandardKeys :
       documents[key] # Null
       => /\ key \in DOMAIN response.returned
          /\ LET stats == response.returned[key]
                 sections == SectionsOf(documents[key])
             IN /\ stats.totalSections = Len(sections)
                /\ stats.validSections = SectionsWithBody(sections)
                /\ stats.validSections <= stats.totalSections
                /\ stats.successRate.kind = "number"
                /\ stats.successRate.value \in 0..100
                /\ Len(sections) > 0
                     => stats.successRate.value
                          = RoundedPercentage(SectionsWithBody(sections), Len(sections))
                /\ stats.totalPages.kind = "number"
                /\ stats.totalPages.value = LargestPage(sections)

----------------------------------------------------------------------------
(* The normalization of section text and of the query.                     *)

\* the registered documents as they would be with their tokens stemmed; Stem is
\* exact on every word of the inputs whose stem is a stemmed query term
StemmedDocuments ==
  [d \in 1..Len(tfidfDocuments) |-> MapSeq(tfidfDocuments[d], Stem) \o <<>>] \o <<>>

\* the statistical part of the score of a returned entry
StatisticalScore(result) ==
  result.score - result.exactMatches * ExactWeight
    - result.partialMatches * PartialHalfWeight - result.titleMatches * TitleWeight

\* the sum over the stemmed query terms of their TF-IDF weight in the stemmed
\* document of the entry
StemmedStatisticalScore(queryTerms, documentIndex) ==
  With(StemmedDocuments, LAMBDA docs :
    SumSeq([i \in 1..Len(queryTerms) |-> TfIdfOf(docs, queryTerms[i], documentIndex)]))

\* C19: section text is registered in the weighting model under the
\* normalization of the query (lower-cased, tokenized, stemmed), so the
\* statistical score of every returned entry is the weight of the stemmed
\* query terms among the stemmed terms of the section, and a query word
\* matches its morphological variants.
C19_QueryAndIndexNormalizedAlike ==
  (phase = "listening" /\ SearchResponse /\ "allResults" \in DOMAIN response.returned
     /\ ~OptHideScores(response.options)) =>
    With(QueryTerms(ToLowerCase(response.query)), LAMBDA queryTerms :
      \A i \in 1..Len(response.returned.allResults) :
        With(response.returned.allResults[i], LAMBDA result :
          StatisticalScore(result)
            = StemmedStatisticalScore(queryTerms, result.entry.documentIndex)))

----------------------------------------------------------------------------
(* The score-visibility option.                                            *)

ScoreFields == {"score", "exactMatches", "partialMatches", "titleMatches", "matchedTerms"}

\* the answer to the request of the response with hideScores not set
AnswerWithScores ==
  search(response.query, [response.options EXCEPT !.hideScores = FALSE])

\* list is withScores with the score fields of every entry removed: the same
\* entries in the same order, each with its section fields alone
StrippedOf(list, withScores) ==
  /\ Len(list) = Len(withScores)
  /\ \A i \in 1..Len(list) :
        /\ DOMAIN list[i] \cap ScoreFields = {}
        /\ DOMAIN list[i] = DOMAIN withScores[i] \ ScoreFields
        /\ list[i].entry = withScores[i].entry

\* C20: with hideScores set, no entry of results or allResults carries score,
\* exactMatches, partialMatches, titleMatches or matchedTerms, and the entries
\* are those returned without the option, in the same order and with the same
\* section fields.
C20_HideScoresStripsScoreFieldsOnly ==
  (phase = "listening" /\ SearchResponse /\ OptHideScores(response.options)) =>
    With2(response.returned, AnswerWithScores, LAMBDA hidden, plain :
      /\ DOMAIN hidden = DOMAIN plain
      /\ StrippedOf(hidden.results, plain.results)
      /\ "allResults" \in DOMAIN hidden =>
            StrippedOf(hidden.allResults, plain.allResults))

\* a response with hideScores set that lists several entries, whose order matters
C20_Witness ==
  /\ phase = "listening"
  /\ SearchResponse
  /\ OptHideScores(response.options)
  /\ "allResults" \in DOMAIN response.returned
  /\ Len(response.returned.allResults) >= 2
  /\ Len(response.returned.results) >= 1

----------------------------------------------------------------------------
(* Requests are reads.                                                     *)

----------------------------------------------------------------------------
(* The load pass comes before every request.                               *)

\* C22: a search, compare or statistics request is handled only once
\* loadDocuments has returned, and from then on the section index, the
\* document list of the weighting model and the stored documents are not
\* modified.
C22_LoadCompletesBeforeRequests ==
  /\ [](response # NoResponse => phase = "listening")
  /\ [][phase = "listening" => UNCHANGED <<sectionsIndex, tfidfDocuments, documents>>]_vars

\* a statistics request was handled over a loaded index
C22_Witness ==
  /\ phase = "listening"
  /\ StatsResponse
  /\ sectionsIndex # <<>>
  /\ \E key \in StandardKeys : documents[key] # Null

----------------------------------------------------------------------------
(* The identity of index entries.                                          *)

\* C23: after a load, no two entries of the section index have the same
\* standard identifier and the same section number.
C23_StandardAndNumberIdentifyEntry ==
  phase = "listening" =>
    \A i, j \in 1..Len(sectionsIndex) :
      (sectionsIndex[i].standardType = sectionsIndex[j].standardType
         /\ sectionsIndex[i].sectionId = sectionsIndex[j].sectionId) => i = j

----------------------------------------------------------------------------
(* The order of the returned entries.                                      *)

\* list is in non-increasing order of score, entries with equal scores in the
\* order of the section index
OrderedByScoreThenIndex(list) ==
  \A i, j \in 1..Len(list) :
    i < j =>
      \/ list[i].score > list[j].score
      \/ /\ list[i].score = list[j].score
         /\ list[i].entry.documentIndex < list[j].entry.documentIndex

\* C24: allResults (and results under a standard filter) is sorted in
\* non-increasing order of composite score, and entries with equal scores
\* appear in the iteration order of the section index.
C24_SortedByScoreStable ==
  (phase = "listening" /\ SearchResponse /\ "allResults" \in DOMAIN response.returned
     /\ ~OptHideScores(response.options)) =>
    /\ OrderedByScoreThenIndex(response.returned.allResults)
    /\ OptStandardType(response.options) # "" =>
          OrderedByScoreThenIndex(response.returned.results)

\* two entries with equal scores are listed, under a standard filter
C24_Witness ==
  /\ phase = "listening"
  /\ SearchResponse
  /\ "allResults" \in DOMAIN response.returned
  /\ ~OptHideScores(response.options)
  /\ OptStandardType(response.options) # ""
  /\ \E i, j \in 1..Len(response.returned.results) :
        /\ i < j
        /\ response.returned.results[i].score = response.returned.results[j].score

----------------------------------------------------------------------------
(* Short query tokens in the match counts.                                 *)

\* the words of the query that have three characters or more
LongWords(queryLower) ==
  SelectSeq(SplitWhitespace(queryLower), LAMBDA w : Len(w) > 2)

\* the exact-match count taken over the words of three characters or more
ExactMatchesOfLongWords(query, section) ==
  With2(EntryText(section), ToLowerCase(query), LAMBDA text, queryLower :
    With(LongWords(queryLower), LAMBDA words :
      CountOccurrences(text, queryLower) * 2
        + SumSeq([i \in 1..Len(words) |-> CountWholeWord(text, words[i])])))

\* the title-match count taken over the words of three characters or more
TitleMatchesOfLongWords(query, section) ==
  With2(EntryTitle(section), ToLowerCase(query), LAMBDA title, queryLower :
    With(LongWords(queryLower), LAMBDA words :
      (IF Includes(title, queryLower) THEN 3 ELSE 0)
      + Cardinality({i \in 1..Len(words) : Includes(title, words[i])})))

\* C25: the word counts of exactMatches and titleMatches are taken over the
\* query words of three characters or more: a shorter token adds nothing to
\* either count, so it never makes a section a candidate by itself.
C25_ShortTokensCountForNothing ==
  (phase = "listening" /\ SearchResponse /\ "allResults" \in DOMAIN response.returned
     /\ ~OptHideScores(response.options)) =>
    \A i \in 1..Len(response.returned.allResults) :
      With(response.returned.allResults[i], LAMBDA result :
        /\ result.exactMatches = ExactMatchesOfLongWords(response.query, result.entry)
        /\ result.titleMatches = TitleMatchesOfLongWords(response.query, result.entry))

----------------------------------------------------------------------------
(* The section index and the document list of the weighting model.         *)

\* the text registered for an index entry: `${title} ${body}`
RegisteredTextOf(entry) == entry.title \o <<" ">> \o entry.content

\* C26: the section index and the document list of the weighting model have
\* the same length, the i-th entry holds i as its documentIndex (counted from
\* 0), and the i-th document is the title and body of the i-th entry, so the
\* statistical score of a returned entry is computed on its own text.
C26_IndexAlignedWithDocuments ==
  /\ Len(sectionsIndex) = Len(tfidfDocuments)
  /\ \A i \in 1..Len(sectionsIndex) :
        /\ sectionsIndex[i].documentIndex = i - 1
        /\ tfidfDocuments[i] = BuildDocument(RegisteredTextOf(sectionsIndex[i]))
  /\ (phase = "listening" /\ SearchResponse /\ "allResults" \in DOMAIN response.returned
        /\ ~OptHideScores(response.options)) =>
       With(QueryTerms(ToLowerCase(response.query)), LAMBDA queryTerms :
         \A i \in 1..Len(response.returned.allResults) :
           With(response.returned.allResults[i], LAMBDA result :
             With(BuildDocument(RegisteredTextOf(result.entry)), LAMBDA own :
               StatisticalScore(result)
                 = SumSeq([k \in 1..Len(queryTerms) |->
                             CountIn(own, queryTerms[k]) * Idf(tfidfDocuments, queryTerms[k])]))))

\* an entry other than the first of the index is returned with a statistical
\* score above zero
C26_Witness ==
  /\ phase = "listening"
  /\ SearchResponse
  /\ "allResults" \in DOMAIN response.returned
  /\ ~OptHideScores(response.options)
  /\ Len(sectionsIndex) >= 3
  /\ \E i \in 1..Len(response.returned.allResults) :
        /\ response.returned.allResults[i].entry.documentIndex >= 1
        /\ StatisticalScore(response.returned.allResults[i]) > 0

----------------------------------------------------------------------------
(* A standard whose load fails.                                            *)

\* reading, parsing or indexing the file raises
FailsToLoad(file) ==
  /\ EndsWith(file.name, FileSuffix)
  /\ \/ file.status # "ok"
     \/ \E i \in 1..Len(SectionsOf(file.data)) : RaisesOnText(SectionsOf(file.data)[i])

\* the index entries that come from the sections of the file
EntriesFromFile(file) ==
  {i \in 1..Len(sectionsIndex) :
     \E k \in 1..Len(SectionsOf(file.data)) :
       sectionsIndex[i] = IndexEntry(SectionsOf(file.data)[k], StandardOfFile(file.name),
                                     sectionsIndex[i].documentIndex)}

\* C27: a standard whose load fails (unreadable file, malformed JSON, or an
\* exception while one of its sections is indexed) is skipped as a whole: after
\* loadDocuments its entry in the document store is unset and the section
\* index holds no entry of it.
C27_FailedStandardSkippedAsWhole ==
  phase = "listening" =>
    \A f \in 1..Len(directory) :
      (/\ FailsToLoad(directory[f])
       /\ \A g \in 1..Len(directory) :
            StandardOfFile(directory[g].name) = StandardOfFile(directory[f].name) => g = f) =>
        /\ documents[StandardOfFile(directory[f].name)] = Null
        /\ EntriesFromFile(directory[f]) = {}

----------------------------------------------------------------------------
(* The composite score.                                                    *)

\* the number of members of words that satisfy Test
CountWords(words, Test(_)) == Cardinality({i \in 1..Len(words) : Test(words[i])})

----------------------------------------------------------------------------
(* The best-per-standard list and the full list.                           *)

\* C29: in a search without a standard filter, whatever maxResults is, every
\* entry of results is also an entry of allResults, so results is not longer
\* than allResults.
C29_ResultsWithinAllResults ==
  (phase = "listening" /\ SearchResponse /\ "allResults" \in DOMAIN response.returned
     /\ OptStandardType(response.options) = "") =>
    /\ \A i \in 1..Len(response.returned.results) :
         \E j \in 1..Len(response.returned.allResults) :
           response.returned.allResults[j] = response.returned.results[i]
    /\ Len(response.returned.results) <= Len(response.returned.allResults)

----------------------------------------------------------------------------
(* The document store and the section index.                               *)

\* the index entry at position i was built from a section of the record set
\* held in the document store under key
BuiltFromStored(i, key) ==
  /\ documents[key] # Null
  /\ \E k \in 1..Len(SectionsOf(documents[key])) :
        sectionsIndex[i] = IndexEntry(SectionsOf(documents[key])[k], key, i - 1)

\* C30: after loadDocuments the document store and the section index agree:
\* every index entry was built from a section of the record set that the
\* document store holds under a standard key, also when two files are
\* classified under the same key or a file matches no known standard name.
C30_IndexBuiltFromStoredDocuments ==
  phase = "listening" =>
    \A i \in 1..Len(sectionsIndex) : \E key \in StandardKeys : BuiltFromStored(i, key)

====
